---- MODULE Spec2Model ----
(***************************************************************************)
(* Model of pipelines/continuous_deployment/continuous_deployment_dag.py:  *)
(* the four python callables of the DAG credit_score_classification_cd     *)
(* (health probe, deployed-metadata fetch, registry lookup, decision       *)
(* evaluator), the task wiring, and the scheduling rules the operators     *)
(* are declared with (BranchPythonOperator, default trigger rule           *)
(* all_success).                                                           *)
(*                                                                         *)
(* Two specifications:                                                     *)
(*   Spec      one DAG run: the engine schedules tasks along the wiring.   *)
(*   SpecEval  the callables applied directly to every combination of      *)
(*             collaborator answers (no engine, no skipping).              *)
(***************************************************************************)
EXTENDS Integers, Sequences, FiniteSets, TLC

\* ---------------------------------------------------------------- bounds
\* timestamps are the instants 0..MaxTime
MaxTime == 2
\* utc offsets (hours) a registry creation_time may carry
MaxOffset == 1

Times == 0..MaxTime
Offsets == 0..MaxOffset

\* ------------------------------------------------------------- task ids
T_BRANCH == "get_branch_by_api_status"
T_DEPLOYED == "get_deployed_model_creation_time"
T_TRAINED == "get_latest_trained_model_creation_time"
T_DECIDE == "decide_update"
T_DEPLOY == "deploy_new_model"
T_SKIP == "skip_deployment"

Tasks == {T_BRANCH, T_DEPLOYED, T_TRAINED, T_DECIDE, T_DEPLOY, T_SKIP}

\* ---------------------------------------------------------- python values
\* None, and a datetime t, as a value an XCom can hold
None == <<>>
Some(t) == <<t>>
\* a str and a list of str (a list never equals a str)
Str(s) == <<"str", s>>
StrList(l) == <<"list">> \o l

\* outcome of a python call: a returned value or a raised exception
Return(v) == [exc |-> FALSE, val |-> v]
Raise == [exc |-> TRUE, val |-> None]

\* a try block whose except clause is missing: the exception escapes
TryExcept_noexcept(body, handler) == body

\* try: body / except Exception: return handler
TryExcept(body, handler) == IF body.exc THEN Return(handler) ELSE body

\* ------------------------------------------------- collaborator answers
\* answer of GET /healthz: a network error or a status code
HealthResponses ==
    {[neterr |-> TRUE, status |-> 0]} \cup
    {[neterr |-> FALSE, status |-> s] : s \in {200, 503}}

ISO_FMT == "%Y-%m-%dT%H:%M:%S.%fZ"

\* answer of POST /metadata: network error, a status code, a body that is
\* JSON or not, with or without creation_time, whose text is in the
\* expected format or not
MetadataResponses ==
    {[neterr |-> TRUE, status |-> 0, json |-> FALSE, has_ct |-> FALSE,
      fmt |-> "", t |-> 0]} \cup
    {[neterr |-> FALSE, status |-> 503, json |-> FALSE, has_ct |-> FALSE,
      fmt |-> "", t |-> 0]} \cup
    {[neterr |-> FALSE, status |-> 200, json |-> FALSE, has_ct |-> FALSE,
      fmt |-> "", t |-> 0]} \cup
    {[neterr |-> FALSE, status |-> 200, json |-> TRUE, has_ct |-> FALSE,
      fmt |-> "", t |-> 0]} \cup
    {[neterr |-> FALSE, status |-> 200, json |-> TRUE, has_ct |-> TRUE,
      fmt |-> f, t |-> t] : f \in {ISO_FMT, "%Y-%m-%d"}, t \in Times}

\* the local registry: the model is missing, or it has a timezone-aware
\* creation_time (wall clock reading and utc offset)
RegistryStates ==
    {[found |-> FALSE, wall |-> 0, off |-> 0]} \cup
    {[found |-> TRUE, wall |-> w, off |-> o] : w \in Times, o \in Offsets}

\* ------------------------------------------------------------ callables
\* datetime.strptime(s, fmt): s is None (TypeError), s is not in the
\* format (ValueError), or the naive datetime the text denotes
strptime(has, sfmt, t, fmt) ==
    IF ~has THEN Raise
    ELSE IF sfmt # fmt THEN Raise
    ELSE Return(Some(t))

get_branch_by_api_status(resp) ==
    TryExcept(
        IF resp.neterr THEN Raise
        ELSE IF resp.status = 200
             THEN Return(StrList(<<T_DEPLOYED, T_TRAINED>>))
             ELSE Return(Str(T_DEPLOY)),
        Str(T_DEPLOY))

get_deployed_model_creation_time(resp) ==
    TryExcept(
        IF resp.neterr THEN Raise
        ELSE IF resp.status = 200
             THEN (IF ~resp.json THEN Raise
                   ELSE strptime(resp.has_ct, resp.fmt, resp.t, ISO_FMT))
             ELSE Return(None),
        None)

\* creation_time.replace(tzinfo=None): the wall clock reading is kept and
\* the offset dropped
replace_tzinfo_none(wall, off) == Some(wall)

get_latest_trained_model_creation_time(reg) ==
    TryExcept(
        IF ~reg.found THEN Raise
        ELSE Return(replace_tzinfo_none(reg.wall, reg.off)),
        None)

xcom_pull(ti, task_id) == ti[task_id]

\* variants of decide_model_update, each with one condition altered
decide_model_update_nohealth(ti) ==
    LET deployed_creation_time == xcom_pull(ti, T_DEPLOYED)
        trained_creation_time == xcom_pull(ti, T_TRAINED)
    IN  IF deployed_creation_time = None THEN Return(Str(T_DEPLOY))
        ELSE IF /\ trained_creation_time # None
                /\ trained_creation_time[1] > deployed_creation_time[1]
             THEN Return(Str(T_DEPLOY))
        ELSE Return(Str(T_SKIP))

decide_model_update_nonone(ti) ==
    LET api_status == xcom_pull(ti, T_BRANCH)
        deployed_creation_time == xcom_pull(ti, T_DEPLOYED)
        trained_creation_time == xcom_pull(ti, T_TRAINED)
    IN  IF api_status = Str(T_DEPLOY) THEN Return(Str(T_DEPLOY))
        ELSE IF trained_creation_time # None /\ deployed_creation_time = None
             THEN Raise
        ELSE IF /\ trained_creation_time # None
                /\ trained_creation_time[1] > deployed_creation_time[1]
             THEN Return(Str(T_DEPLOY))
        ELSE Return(Str(T_SKIP))

decide_model_update_ge(ti) ==
    LET api_status == xcom_pull(ti, T_BRANCH)
        deployed_creation_time == xcom_pull(ti, T_DEPLOYED)
        trained_creation_time == xcom_pull(ti, T_TRAINED)
    IN  IF api_status = Str(T_DEPLOY) THEN Return(Str(T_DEPLOY))
        ELSE IF deployed_creation_time = None THEN Return(Str(T_DEPLOY))
        ELSE IF /\ trained_creation_time # None
                /\ trained_creation_time[1] >= deployed_creation_time[1]
             THEN Return(Str(T_DEPLOY))
        ELSE Return(Str(T_SKIP))

decide_model_update_lt(ti) ==
    LET api_status == xcom_pull(ti, T_BRANCH)
        deployed_creation_time == xcom_pull(ti, T_DEPLOYED)
        trained_creation_time == xcom_pull(ti, T_TRAINED)
    IN  IF api_status = Str(T_DEPLOY) THEN Return(Str(T_DEPLOY))
        ELSE IF deployed_creation_time = None THEN Return(Str(T_DEPLOY))
        ELSE IF /\ trained_creation_time # None
                /\ trained_creation_time[1] < deployed_creation_time[1]
             THEN Return(Str(T_DEPLOY))
        ELSE Return(Str(T_SKIP))

decide_model_update(ti) ==
    LET api_status == xcom_pull(ti, T_BRANCH)
        deployed_creation_time == xcom_pull(ti, T_DEPLOYED)
        trained_creation_time == xcom_pull(ti, T_TRAINED)
    IN  IF api_status = Str(T_DEPLOY) THEN Return(Str(T_DEPLOY))
        ELSE IF deployed_creation_time = None THEN Return(Str(T_DEPLOY))
        ELSE IF /\ trained_creation_time # None
                /\ trained_creation_time[1] > deployed_creation_time[1]
             THEN Return(Str(T_DEPLOY))
        ELSE Return(Str(T_SKIP))

\* ------------------------------------------------------------ the wiring
\* get_api_status_task >> deploy_new_model_task
\* get_api_status_task >> [deployed, trained] >> decide_update_task
\* decide_update_task >> [deploy_new_model_task, skip_deployment_task]
Edges ==
    { <<T_BRANCH, T_DEPLOY>>,
      <<T_BRANCH, T_DEPLOYED>>, <<T_BRANCH, T_TRAINED>>,
      <<T_DEPLOYED, T_DECIDE>>, <<T_TRAINED, T_DECIDE>>,
      <<T_DECIDE, T_DEPLOY>>, <<T_DECIDE, T_SKIP>> }

Upstream(t) == {u \in Tasks : <<u, t>> \in Edges}
Downstream(t) == {d \in Tasks : <<t, d>> \in Edges}

RECURSIVE Descendants(_)
Descendants(t) ==
    Downstream(t) \cup UNION {Descendants(d) : d \in Downstream(t)}

\* -------------------------------------------------------------- the state
VARIABLES
    env,      \* what the collaborators answer in this run
    state,    \* task id -> none | running | success | skipped | failed
              \*            | upstream_failed
    xcom,     \* task id -> return value pushed by the task (None if none)
    pulled,   \* the three values decide_model_update pulled, once it ran
    swapped   \* decision for the timestamps exchanged (SpecEval only)

vars == <<env, state, xcom, pulled, swapped>>

Init ==
    /\ env \in [health : HealthResponses,
                metadata : MetadataResponses,
                registry : RegistryStates]
    /\ state = [t \in Tasks |-> "none"]
    /\ xcom = [t \in Tasks |-> None]
    /\ pulled = None
    /\ swapped = None

\* ------------------------------------------------------ scheduling rules
\* a trigger rule that lets a task run once one upstream task succeeded
TriggerRule_one_success(t) ==
    IF \E u \in Upstream(t) : state[u] = "success" THEN "running"
    ELSE IF Upstream(t) = {} THEN "running"
    ELSE "none"

\* the default trigger rule all_success, as a verdict on a task not yet
\* started: a failed upstream task marks it upstream_failed, a skipped one
\* skips it, it runs once every upstream task succeeded, else it waits
TriggerRule(t) ==
    IF \E u \in Upstream(t) : state[u] \in {"failed", "upstream_failed"}
    THEN "upstream_failed"
    ELSE IF \E u \in Upstream(t) : state[u] = "skipped" THEN "skipped"
    ELSE IF \A u \in Upstream(t) : state[u] = "success" THEN "running"
    ELSE "none"

\* a branch that skips nothing
skip_all_except_none(t, branch_task_ids) == {}

\* the tasks a branch task skips: its direct downstream tasks that are
\* neither selected nor downstream of a selected task
skip_all_except(t, branch_task_ids) ==
    LET followed == branch_task_ids \cup
                    UNION {Descendants(b) : b \in branch_task_ids}
    IN  Downstream(t) \ followed

\* the task ids a branch callable returned (a str or a list of str)
BranchIds(v) ==
    IF v[1] = "str" THEN {v[2]} ELSE {v[i] : i \in 2..Len(v)}

\* the scheduler settles a task that has not started
Schedule(t) ==
    /\ state[t] = "none"
    /\ TriggerRule(t) # "none"
    /\ state' = [state EXCEPT ![t] = TriggerRule(t)]
    /\ UNCHANGED <<env, xcom, pulled, swapped>>

\* PythonOperator: the callable's return value is pushed as an XCom
ExecutePython(t, r) ==
    /\ state' = [state EXCEPT ![t] = IF r.exc THEN "failed" ELSE "success"]
    /\ xcom' = [xcom EXCEPT ![t] = r.val]

\* BranchPythonOperator: the callable's return value selects the tasks to
\* follow, the other downstream tasks are skipped, the value is pushed
ExecuteBranch(t, r) ==
    /\ state' = [u \in Tasks |->
                   IF u = t THEN (IF r.exc THEN "failed" ELSE "success")
                   ELSE IF ~r.exc /\ u \in skip_all_except(t, BranchIds(r.val))
                        THEN "skipped"
                   ELSE state[u]]
    /\ xcom' = [xcom EXCEPT ![t] = r.val]

RunBranch ==
    /\ state[T_BRANCH] = "running"
    /\ ExecuteBranch(T_BRANCH, get_branch_by_api_status(env.health))
    /\ UNCHANGED <<env, pulled, swapped>>

RunDeployed ==
    /\ state[T_DEPLOYED] = "running"
    /\ ExecutePython(T_DEPLOYED,
                     get_deployed_model_creation_time(env.metadata))
    /\ UNCHANGED <<env, pulled, swapped>>

RunTrained ==
    /\ state[T_TRAINED] = "running"
    /\ ExecutePython(T_TRAINED,
                     get_latest_trained_model_creation_time(env.registry))
    /\ UNCHANGED <<env, pulled, swapped>>

RunDecide ==
    /\ state[T_DECIDE] = "running"
    /\ ExecuteBranch(T_DECIDE, decide_model_update(xcom))
    /\ pulled' = <<xcom_pull(xcom, T_BRANCH), xcom_pull(xcom, T_DEPLOYED),
                   xcom_pull(xcom, T_TRAINED)>>
    /\ UNCHANGED <<env, swapped>>

\* BashOperator: docker compose up; the exit code decides the task state
RunDeploy ==
    /\ state[T_DEPLOY] = "running"
    /\ \E rc \in {0, 1} :
         state' = [state EXCEPT ![T_DEPLOY] =
                     IF rc = 0 THEN "success" ELSE "failed"]
    /\ UNCHANGED <<env, xcom, pulled, swapped>>

\* python_callable=lambda: print("No new model to deploy")
RunSkip ==
    /\ state[T_SKIP] = "running"
    /\ ExecutePython(T_SKIP, Return(None))
    /\ UNCHANGED <<env, pulled, swapped>>

Next ==
    \/ \E t \in Tasks : Schedule(t)
    \/ RunBranch
    \/ RunDeployed
    \/ RunTrained
    \/ RunDecide
    \/ RunDeploy
    \/ RunSkip

Spec == Init /\ [][Next]_vars

\* --------------------------------------------- the callables on their own
\* each callable applied once, directly, to the collaborators' answers
CallBranch ==
    /\ state[T_BRANCH] = "none"
    /\ ExecutePython(T_BRANCH, get_branch_by_api_status(env.health))
    /\ UNCHANGED <<env, pulled, swapped>>

CallDeployed ==
    /\ state[T_DEPLOYED] = "none"
    /\ ExecutePython(T_DEPLOYED,
                     get_deployed_model_creation_time(env.metadata))
    /\ UNCHANGED <<env, pulled, swapped>>

CallTrained ==
    /\ state[T_TRAINED] = "none"
    /\ ExecutePython(T_TRAINED,
                     get_latest_trained_model_creation_time(env.registry))
    /\ UNCHANGED <<env, pulled, swapped>>

Fetched ==
    \A t \in {T_BRANCH, T_DEPLOYED, T_TRAINED} : state[t] = "success"

CallDecide ==
    /\ state[T_DECIDE] = "none"
    /\ Fetched
    /\ ExecutePython(T_DECIDE, decide_model_update(xcom))
    /\ pulled' = <<xcom_pull(xcom, T_BRANCH), xcom_pull(xcom, T_DEPLOYED),
                   xcom_pull(xcom, T_TRAINED)>>
    /\ UNCHANGED <<env, swapped>>

\* the evaluator applied to the same values with the timestamps exchanged
CallDecideSwapped ==
    /\ swapped = None
    /\ Fetched
    /\ LET ti == [xcom EXCEPT ![T_DEPLOYED] = xcom[T_TRAINED],
                              ![T_TRAINED] = xcom[T_DEPLOYED]]
           r == decide_model_update(ti)
       IN  swapped' = IF r.exc THEN Str("raise") ELSE r.val
    /\ UNCHANGED <<env, state, xcom, pulled>>

EvalNext ==
    \/ CallBranch
    \/ CallDeployed
    \/ CallTrained
    \/ CallDecide
    \/ CallDecideSwapped

SpecEval == Init /\ [][EvalNext]_vars

\* ---------------------------------------------------------- vocabulary
\* the health probe reports Unreachable: network error or non-200
Unreachable == env.health.neterr \/ env.health.status # 200

\* the metadata fetch fails: network error, non-200, body not JSON,
\* creation_time missing or not in the expected format
MetadataFailure ==
    \/ env.metadata.neterr
    \/ env.metadata.status # 200
    \/ ~env.metadata.json
    \/ ~env.metadata.has_ct
    \/ env.metadata.fmt # ISO_FMT

RegistryFailure == ~env.registry.found

Executed(t) == state[t] \in {"running", "success", "failed"}

RunFinished == \A t \in Tasks : state[t] \notin {"none", "running"}

Evaluated == state[T_DECIDE] # "none"

Decided(d) == state[T_DECIDE] = "success" /\ xcom[T_DECIDE] = Str(d)

deployed == xcom[T_DEPLOYED]
trained == xcom[T_TRAINED]

\* ---------------------------------------------------------------- claims
\* C1: whenever the health status is Unreachable, whatever the two
\* timestamps are, the evaluator returns deploy_new_model.
C1_UnreachableDeploys ==
    (Evaluated /\ Unreachable) => Decided(T_DEPLOY)

C1_Witness ==
    /\ Decided(T_DEPLOY) /\ Unreachable
    /\ deployed # None /\ trained # None
    /\ trained[1] < deployed[1]

\* C2: in a run whose health probe reports Unreachable, the task
\* deploy_new_model is executed and not skipped.
C2_UnreachableRunDeploys ==
    Unreachable =>
        /\ state[T_DEPLOY] # "skipped"
        /\ RunFinished => state[T_DEPLOY] \in {"success", "failed"}

\* C3: skip_deployment is executed, and the decision skip_deployment is
\* produced, only if health is Reachable, deployed is present and trained
\* is absent or not newer than deployed.
C3_SkipOnlyWhenFresh ==
    (Executed(T_SKIP) \/ Decided(T_SKIP)) =>
        /\ ~Unreachable
        /\ deployed # None
        /\ trained = None \/ trained[1] <= deployed[1]

C3_Witness ==
    /\ state[T_SKIP] = "success"
    /\ trained # None

\* C4: Reachable and deployed absent give deploy_new_model for every
\* trained.
C4_AbsentDeployedDeploys ==
    (Evaluated /\ ~Unreachable /\ deployed = None) => Decided(T_DEPLOY)

C4_Witness ==
    /\ Decided(T_DEPLOY) /\ ~Unreachable
    /\ deployed = None /\ trained # None

\* C5: Reachable, both timestamps present and trained strictly newer than
\* deployed give deploy_new_model.
C5_NewerTrainedDeploys ==
    (/\ Evaluated /\ ~Unreachable
     /\ deployed # None /\ trained # None
     /\ trained[1] > deployed[1]) => Decided(T_DEPLOY)

C5_Witness ==
    /\ Decided(T_DEPLOY) /\ ~Unreachable
    /\ deployed # None /\ trained # None
    /\ trained[1] > deployed[1]

\* C6: Reachable and deployed present give skip_deployment whenever
\* trained is absent or not newer than deployed, equal timestamps included.
C6_NotNewerSkips ==
    (/\ Evaluated /\ ~Unreachable
     /\ deployed # None
     /\ trained = None \/ trained[1] <= deployed[1]) => Decided(T_SKIP)

C6_Witness ==
    /\ Decided(T_SKIP) /\ ~Unreachable
    /\ deployed # None /\ trained # None
    /\ trained[1] = deployed[1]

\* C7 as stated: the evaluator returns the same decision when its two
\* timestamp arguments are exchanged.
C7_Commutative ==
    (state[T_DECIDE] = "success" /\ swapped # None) =>
        xcom[T_DECIDE] = swapped

\* C7 amended: exchanging the two timestamp arguments keeps the decision
\* exactly when health is Unreachable or the two arguments are equal;
\* otherwise the two decisions differ.
C7_CommutativeOnlyIfEqual ==
    (state[T_DECIDE] = "success" /\ swapped # None) =>
        ((xcom[T_DECIDE] = swapped) <=> (Unreachable \/ deployed = trained))

C7_Witness ==
    /\ state[T_DECIDE] = "success" /\ swapped # None
    /\ ~Unreachable
    /\ deployed # None /\ trained # None /\ deployed # trained
    /\ xcom[T_DECIDE] # swapped

\* C8: no collaborator failure becomes an error: a failed probe yields
\* deploy_new_model, a failed metadata fetch and a failed registry lookup
\* yield None, no callable fails, and the evaluator returns a decision.
C8_FailuresBecomeValues ==
    /\ \A t \in Tasks : state[t] # "failed"
    /\ (state[T_BRANCH] # "none" /\ Unreachable) =>
           xcom[T_BRANCH] = Str(T_DEPLOY)
    /\ (state[T_DEPLOYED] # "none" /\ MetadataFailure) => deployed = None
    /\ (state[T_TRAINED] # "none" /\ RegistryFailure) => trained = None
    /\ Evaluated => (Decided(T_DEPLOY) \/ Decided(T_SKIP))

C8_Witness ==
    /\ env.health.neterr
    /\ env.metadata.status = 200 /\ env.metadata.has_ct
    /\ env.metadata.fmt # ISO_FMT
    /\ RegistryFailure
    /\ Fetched
    /\ Decided(T_DEPLOY)

\* C9: decide_update starts only after both fetch tasks completed, and the
\* timestamps it reads are the ones the two fetches produced in this run.
C9_DecideAfterBothFetches ==
    /\ Executed(T_DECIDE) =>
           (state[T_DEPLOYED] = "success" /\ state[T_TRAINED] = "success")
    /\ state[T_DECIDE] = "success" =>
           /\ pulled[2] = get_deployed_model_creation_time(env.metadata).val
           /\ pulled[3] =
                  get_latest_trained_model_creation_time(env.registry).val

C9_Witness ==
    /\ state[T_DECIDE] = "success"
    /\ pulled[2] # None /\ pulled[3] # None

\* C10: deploy_new_model and skip_deployment are never both executed in
\* one run.
C10_NotBothTerminals ==
    ~(Executed(T_DEPLOY) /\ Executed(T_SKIP))

C10_Witness ==
    /\ RunFinished
    /\ state[T_DEPLOY] = "success"
    /\ state[T_SKIP] = "skipped"

====
